---------------------------- MODULE Spec2Model ----------------------------
(***************************************************************************)
(* A model of slint-baseview: the window adapter that translates host      *)
(* (baseview) events into UI-engine (slint) events, the renderer adapters, *)
(* the thread-local platform slot and the per-frame message drain.         *)
(*                                                                         *)
(* f32 values are modelled as rationals <<n, d>> in lowest terms, d >= 0;   *)
(* <<1, 0>> is +inf and <<0, 0>> is NaN (the results of x / 0.0).          *)
(***************************************************************************)
EXTENDS Integers, Sequences, FiniteSets, TLC

\* ------------------------------------------------------------------ bounds

\* Host-reported logical widths and heights range over 0..MaxDim.
MaxDim == 1
\* Modifier sets of the modifier specification hold at most this many flags
\* (plus the set of all fourteen).
MaxActiveModifiers == 2
\* Platform specification: number of deposits and requests in a run.
MaxPlatformOps == 6
\* Frame specification: number of messages producers send in a run.
MaxMessages == 3
\* Frame specification: number of host frame callbacks in a run.
MaxFrames == 2
\* Consecutive failed renders the backend is allowed to produce.
MaxFailures == 2
\* Open specification: number of windows opened on the thread.
MaxWindows == 2
\* Open specification: adapter requests the engine makes inside one view
\* factory, and outside the open callbacks between two opens.
MaxPulls == 2

\* --------------------------------------------------------------- f32 values

RECURSIVE GCD(_, _)
GCD(a, b) == IF b = 0 THEN a ELSE GCD(b, a % b)

F32(n, d) ==
    IF d = 0 THEN <<IF n = 0 THEN 0 ELSE 1, 0>>
    ELSE LET g == GCD(n, d) IN <<n \div g, d \div g>>

F32Mul(a, b) == F32(a[1] * b[1], a[2] * b[2])

F32Div(a, b) == F32(a[1] * b[2], a[2] * b[1])

\* `as u32` / NumCast of a non-negative float: truncation.
F32ToU32(a) == IF a[2] = 0 THEN 0 ELSE a[1] \div a[2]

\* ------------------------------------------------------------ input families

LogicalSizes == ((0..MaxDim) \X (0..MaxDim)) \cup {<<800, 600>>}

SystemScales == {F32(1, 1), F32(2, 1)}

UserScales == {F32(0, 1), F32(1, 2), F32(1, 1), F32(2, 1)}

Positions == {<<0, 0>>, <<3, 1>>}

Buttons == {"Left", "Right", "Other"}

\* baseview::ScrollDelta: Lines { x, y } or Pixels { x, y }, x and y f32.
ScrollDeltas ==
    {<<"Lines", F32(1, 1), F32(2, 1)>>, <<"Lines", F32(-1, 2), F32(0, 1)>>,
     <<"Pixels", F32(11, 2), F32(-16, 5)>>}

Keys == {"a", "Enter"}

\* The baseview::MouseEvent variants on_event has no arm for.
OtherMouseEvents == {"CursorEntered", "DragEntered", "DragMoved", "DragLeft", "DragDropped"}

RendererTypes == {"FemtoVG", "Skia", "Software"}

\* ---------------------------------------------------------------- variables

VARIABLES
    inner,          \* RefCell<EmbeddedWindowAdapterInner>
    renderer_type,  \* the backend chosen at construction
    surface,        \* TRUE once the renderer adapter is attached to the window
    phase,          \* "new" | "open" | "panicked"
    last,           \* the last host operation: [op, arg]
    status,         \* what the last operation returned to the host
    calls,          \* the calls the last operation made, in order
    pre,            \* inner, held and exit_track before the last operation
    held,           \* host side: the buttons physically held
    host_modifiers, \* host side: the modifier flags the host's events carry
    exit_track,     \* history: "none" | "owed" | "delivered"
    last_moved,     \* history: the position of the last dispatched PointerMoved
    failed_renders, \* history: consecutive frames whose render returned Err
    slot,           \* EmbeddedPlatform::WINDOW_ADAPTER_INNER: <<>> or <<adapter>>
    platform_log,   \* history of deposits and requests on the slot
    channel,        \* messages in the crossbeam channel
    sent,           \* history: number of messages sent so far
    received,       \* history: messages handed to on_message, in order
    at_start,       \* the channel's content when the current frame began
    frame_pc,       \* "idle" | "drain"
    frames,         \* history: number of frame callbacks begun
    open_pc,        \* the open callback's position; "idle" outside it
    opened,         \* number of windows whose open callback has started
    open_log,       \* history: the steps of the open callbacks, in order
    pixel,          \* the last SoftBufferPixel conversion: [op, input, output]
    options         \* the WindowOpenOptions the host window was opened with

adapterVars == <<inner, renderer_type, surface, phase, last, status, calls, pre,
                 held, host_modifiers, exit_track, last_moved, failed_renders>>

platformVars == <<slot, platform_log>>

frameVars == <<channel, sent, received, at_start, frame_pc, frames>>

openVars == <<open_pc, opened, open_log>>

vars == <<inner, renderer_type, surface, phase, last, status, calls, pre,
          held, host_modifiers, exit_track, last_moved, failed_renders, slot, platform_log, channel, sent, received,
          at_start, frame_pc, frames, open_pc, opened, open_log, pixel, options>>

\* ------------------------------------------------------------ call records

\* One call made by a handler: to the engine (dispatch_event), the renderer,
\* the log (println!) or the view.  borrow is the state of the RefCell
\* `inner` while the call runs: "none", "shared" or "mut".
Call(to, ev, arg, borrow) == [to |-> to, ev |-> ev, arg |-> arg, borrow |-> borrow]

Dispatch(ev, arg) == Call("engine", ev, arg, "none")

Println(what) == Call("log", "println", what, "none")

\* ------------------------------------------------ EmbeddedWindowAdapterInner

\* Mutant: the composite scale drops the user scale factor.
scale_system_only(in) == in.system_scale_factor

scale(in) == F32Mul(in.system_scale_factor, in.user_scale_factor)

\* LogicalSize::to_physical: each dimension times the scale, cast to u32.
to_physical(size, s) == <<F32ToU32(F32Mul(size[1], s)), F32ToU32(F32Mul(size[2], s))>>

physical_size(in) == to_physical(in.size, scale(in))

\* WindowAdapter::size
size(in) == physical_size(in)

LogicalSize(wh) == <<F32(wh[1], 1), F32(wh[2], 1)>>

\* The state EmbeddedWindowAdapter::new builds.
new_inner(sz, user_scale_factor, system_scale_policy) ==
    [size |-> LogicalSize(sz),
     system_scale_factor |->
        IF system_scale_policy[1] = "SystemScaleFactor" THEN F32(1, 1)
        ELSE system_scale_policy[2],
     user_scale_factor |-> user_scale_factor,
     mouse_pos |-> <<F32(0, 1), F32(0, 1)>>,
     mouse_down |-> FALSE,
     pending_mouse_exit |-> FALSE]

\* The WindowOpenOptions that open_parented hands to the host: the logical
\* size is the view's size times the user scale factor.
WindowOpenOptions(sz, user_scale_factor, system_scale_policy) ==
    [size |-> <<F32Mul(sz[1], user_scale_factor), F32Mul(sz[2], user_scale_factor)>>,
     scale |-> system_scale_policy]

\* ------------------------------------------------------------------ helpers

LINE_PX == 60

convert_button(button) ==
    CASE button = "Left" -> "Left"
      [] button = "Middle" -> "Middle"
      [] button = "Right" -> "Right"
      [] button = "Back" -> "Back"
      [] button = "Forward" -> "Forward"
      [] OTHER -> "Other"

\* The order in which send_modifiers walks the modifier flags.
ModifierOrder ==
    <<"ALT", "ALT_GRAPH", "CAPS_LOCK", "CONTROL", "FN", "FN_LOCK", "META",
      "NUM_LOCK", "SCROLL_LOCK", "SHIFT", "SYMBOL", "SYMBOL_LOCK", "HYPER",
      "SUPER">>

Modifiers == {ModifierOrder[i] : i \in 1..Len(ModifierOrder)}

\* Mutant: SUPER gets a code of its own and SHIFT is dropped.
convert_modifier_unshared(modifier) ==
    CASE modifier = "ALT" -> "U+0012"
      [] modifier = "ALT_GRAPH" -> "U+0013"
      [] modifier = "CAPS_LOCK" -> "U+0014"
      [] modifier = "CONTROL" -> "U+0017"
      [] modifier = "META" -> "U+0011"
      [] modifier = "SCROLL_LOCK" -> "U+F72F"
      [] modifier = "SUPER" -> "U+0018"
      [] OTHER -> ""

convert_modifier(modifier) ==
    CASE modifier = "ALT" -> "U+0012"
      [] modifier = "ALT_GRAPH" -> "U+0013"
      [] modifier = "CAPS_LOCK" -> "U+0014"
      [] modifier = "CONTROL" -> "U+0017"
      [] modifier = "META" -> "U+0011"
      [] modifier = "SCROLL_LOCK" -> "U+F72F"
      [] modifier = "SHIFT" -> "U+0010"
      [] modifier = "SUPER" -> "U+0017"
      [] OTHER -> ""

RECURSIVE send_modifiers_from(_, _)
send_modifiers_from(i, modifiers) ==
    IF i > Len(ModifierOrder) THEN <<>>
    ELSE LET modifier == ModifierOrder[i]
             text == convert_modifier(modifier)
         IN  (IF modifier \notin modifiers \/ text = "" THEN <<>>
              ELSE <<Dispatch("KeyPressed", text)>>)
             \o send_modifiers_from(i + 1, modifiers)

send_modifiers(modifiers) == send_modifiers_from(1, modifiers)

\* key.to_string() mapped through for_each_special_keys: a named special key
\* becomes its control character, any other key keeps its text.
modifier_to_char(key) ==
    CASE key = "Enter" -> "U+000A"
      [] key = "Shift" -> "U+0010"
      [] OTHER -> key

\* --------------------------------------------- on_event, per host event kind
\* Each operator gives the handler's effect on `inner` and the calls it makes.

\* Mutant: the position is divided by the composite scale.
on_cursor_moved_composite(in, position, modifiers) ==
    LET mouse_pos == <<F32Div(F32(position[1], 1), scale(in)),
                       F32Div(F32(position[2], 1), scale(in))>>
    IN  [inner |-> [in EXCEPT !.mouse_pos = mouse_pos],
         calls |-> send_modifiers(modifiers)
                   \o <<Dispatch("PointerMoved", mouse_pos)>>]

on_cursor_moved(in, position, modifiers) ==
    LET mouse_pos == <<F32Div(F32(position[1], 1), in.user_scale_factor),
                       F32Div(F32(position[2], 1), in.user_scale_factor)>>
    IN  [inner |-> [in EXCEPT !.mouse_pos = mouse_pos],
         calls |-> send_modifiers(modifiers)
                   \o <<Dispatch("PointerMoved", mouse_pos)>>]

\* Mutant: the press carries the origin instead of the stored position.
on_button_pressed_origin(in, button, modifiers) ==
    [inner |-> [in EXCEPT !.mouse_down = TRUE],
     calls |-> send_modifiers(modifiers)
               \o <<Dispatch("PointerPressed",
                              <<<<F32(0, 1), F32(0, 1)>>, convert_button(button)>>)>>]

on_button_pressed(in, button, modifiers) ==
    [inner |-> [in EXCEPT !.mouse_down = TRUE],
     calls |-> send_modifiers(modifiers)
               \o <<Dispatch("PointerPressed", <<in.mouse_pos, convert_button(button)>>)>>]

\* Mutant: the release also clears the deferred-exit flag.
on_button_released_clearing(in, button, modifiers) ==
    LET exit == in.pending_mouse_exit
    IN  [inner |-> [in EXCEPT !.mouse_down = FALSE, !.pending_mouse_exit = FALSE],
         calls |-> send_modifiers(modifiers)
                   \o <<Dispatch("PointerReleased", <<in.mouse_pos, convert_button(button)>>)>>
                   \o (IF exit THEN <<Dispatch("PointerExited", <<>>)>> ELSE <<>>)]

on_button_released(in, button, modifiers) ==
    LET exit == in.pending_mouse_exit
    IN  [inner |-> [in EXCEPT !.mouse_down = FALSE],
         calls |-> send_modifiers(modifiers)
                   \o <<Dispatch("PointerReleased", <<in.mouse_pos, convert_button(button)>>)>>
                   \o (IF exit THEN <<Dispatch("PointerExited", <<>>)>> ELSE <<>>)]

\* Mutant: line deltas are passed on as they are.
scroll_delta_unscaled(delta) == <<delta[2], delta[3]>>

scroll_delta(delta) ==
    IF delta[1] = "Lines"
    THEN <<F32Mul(delta[2], F32(LINE_PX, 1)), F32Mul(delta[3], F32(LINE_PX, 1))>>
    ELSE <<delta[2], delta[3]>>

\* The Ref of inner.borrow() is a temporary of the dispatch statement: the
\* shared borrow is held while dispatch_event runs.
on_wheel_scrolled(in, delta, modifiers) ==
    [inner |-> in,
     calls |-> send_modifiers(modifiers)
               \o <<Call("engine", "PointerScrolled",
                         <<in.mouse_pos, scroll_delta(delta)>>, "shared")>>]

\* Mutant: the exit is dispatched at once even while the button is down.
on_cursor_left_eager(in) ==
    [inner |-> [in EXCEPT !.pending_mouse_exit = in.mouse_down],
     calls |-> <<Call("engine", "PointerExited", <<>>, "mut")>>]

\* `inner` stays mutably borrowed for the whole arm, dispatch included.
on_cursor_left(in) ==
    IF in.mouse_down
    THEN [inner |-> [in EXCEPT !.pending_mouse_exit = TRUE], calls |-> <<>>]
    ELSE [inner |-> in, calls |-> <<Call("engine", "PointerExited", <<>>, "mut")>>]

\* Mutant: a key-up event skips send_modifiers.
on_keyboard_up_bare(in, key, state, repeat, modifiers) ==
    LET text == modifier_to_char(key)
        ev == IF state = "Down"
              THEN (IF repeat THEN "KeyPressRepeated" ELSE "KeyPressed")
              ELSE "KeyReleased"
    IN  [inner |-> in,
         calls |-> (IF state = "Down" THEN send_modifiers(modifiers) ELSE <<>>)
                   \o <<Dispatch(ev, text)>>]

on_keyboard(in, key, state, repeat, modifiers) ==
    LET text == modifier_to_char(key)
        ev == IF state = "Down"
              THEN (IF repeat THEN "KeyPressRepeated" ELSE "KeyPressed")
              ELSE "KeyReleased"
    IN  [inner |-> in,
         calls |-> send_modifiers(modifiers) \o <<Dispatch(ev, text)>>]

\* Mutant: the engine is told of the new size before the renderer is resized,
\* and the renderer gets the size computed with the old system scale factor.
on_resized_dispatch_first(in, logical, sc, resize_result) ==
    LET new == [in EXCEPT !.size = LogicalSize(logical), !.system_scale_factor = sc]
        stale == [in EXCEPT !.size = LogicalSize(logical)]
    IN  [inner |-> new,
         calls |-> <<Dispatch("Resized", new.size)>>
                   \o <<Call("renderer", "resize", physical_size(stale), "none")>>
                   \o (IF resize_result = "Err" THEN <<Println("resize")>> ELSE <<>>)]

\* Mutant: a failed renderer resize rolls the state back and ends the arm.
on_resized_rollback(in, logical, sc, resize_result) ==
    LET new == [in EXCEPT !.size = LogicalSize(logical), !.system_scale_factor = sc]
    IN  IF resize_result = "Err"
        THEN [inner |-> in,
              calls |-> <<Call("renderer", "resize", physical_size(new), "none"),
                          Println("resize")>>]
        ELSE [inner |-> new,
              calls |-> <<Call("renderer", "resize", physical_size(new), "none"),
                          Dispatch("Resized", new.size)>>]

on_resized(in, logical, sc, resize_result) ==
    LET new == [in EXCEPT !.size = LogicalSize(logical), !.system_scale_factor = sc]
    IN  [inner |-> new,
         calls |-> <<Call("renderer", "resize", physical_size(new), "none")>>
                   \o (IF resize_result = "Err" THEN <<Println("resize")>> ELSE <<>>)
                   \o <<Dispatch("Resized", new.size)>>]

on_window_event(in, window_event) ==
    [inner |-> in,
     calls |-> <<CASE window_event = "Focused" -> Dispatch("WindowActiveChanged", TRUE)
                   [] window_event = "Unfocused" -> Dispatch("WindowActiveChanged", FALSE)
                   [] window_event = "WillClose" -> Dispatch("CloseRequested", <<>>)>>]

\* Mutant: the renderer is resized before the new factor is stored.
set_user_scale_factor_resize_first(in, user_scale_factor, resize_result) ==
    LET new == [in EXCEPT !.user_scale_factor = user_scale_factor]
    IN  [inner |-> new,
         calls |-> <<Call("renderer", "resize", physical_size(in), "none")>>
                   \o (IF resize_result = "Err" THEN <<Println("resize")>> ELSE <<>>)
                   \o <<Dispatch("ScaleFactorChanged", user_scale_factor)>>]

set_user_scale_factor(in, user_scale_factor, resize_result) ==
    LET new == [in EXCEPT !.user_scale_factor = user_scale_factor]
    IN  [inner |-> new,
         calls |-> <<Call("renderer", "resize", physical_size(new), "none")>>
                   \o (IF resize_result = "Err" THEN <<Println("resize")>> ELSE <<>>)
                   \o <<Dispatch("ScaleFactorChanged", user_scale_factor)>>]

\* -------------------------------------------------------- renderer adapters
\* `fail` names the backend step the environment makes fail ("none": no step
\* fails).  A result is "Ok", "Err" (a textual error) or "Panic".

AttachFailures(rt) ==
    CASE rt = "FemtoVG" -> {"none", "display", "configs", "no_config", "context",
                            "surface", "current", "renderer"}
      [] rt = "Skia" -> {"none", "set_window_handle"}
      [] rt = "Software" -> {"none", "context", "surface"}

RenderFailures(rt) ==
    CASE rt = "Software" -> {"none", "resize", "buffer", "present"}
      [] OTHER -> {"none", "render"}

NonZeroU32(n) == IF n = 0 THEN "None" ELSE "Some"

\* EmbeddedFemtoVGRendererAdapter::set_window
femtovg_set_window(in, fail) ==
    IF fail \in {"display", "configs", "no_config", "context"} THEN "Err"
    ELSE IF NonZeroU32(size(in)[1]) = "None" \/ NonZeroU32(size(in)[2]) = "None"
         THEN "Panic"
    ELSE IF fail \in {"surface", "current", "renderer"} THEN "Err"
    ELSE "Ok"

\* EmbeddedSkiaRendererAdapter::set_window
skia_set_window(in, fail) == IF fail = "set_window_handle" THEN "Err" ELSE "Ok"

\* EmbeddedSoftwareRendererAdapter::set_window
software_set_window(in, fail) == IF fail \in {"context", "surface"} THEN "Err" ELSE "Ok"

renderer_set_window(rt, in, fail) ==
    CASE rt = "FemtoVG" -> femtovg_set_window(in, fail)
      [] rt = "Skia" -> skia_set_window(in, fail)
      [] rt = "Software" -> software_set_window(in, fail)

\* Mutant: render does not return early when no surface is attached.
software_render_unguarded(attached, in, fail) ==
    IF NonZeroU32(size(in)[1]) = "None" \/ NonZeroU32(size(in)[2]) = "None"
         THEN [result |-> "Panic", calls |-> <<>>]
    ELSE IF fail = "resize"
         THEN [result |-> "Err",
               calls |-> <<Call("surface", "resize", size(in), "none")>>]
    ELSE IF fail = "buffer"
         THEN [result |-> "Err",
               calls |-> <<Call("surface", "resize", size(in), "none"),
                           Call("surface", "buffer_mut", <<>>, "none")>>]
    ELSE [result |-> IF fail = "present" THEN "Err" ELSE "Ok",
          calls |-> <<Call("surface", "resize", size(in), "none"),
                      Call("surface", "buffer_mut", <<>>, "none"),
                      Call("renderer", "render", size(in)[1], "none"),
                      Call("surface", "present", <<>>, "none")>>]

\* EmbeddedSoftwareRendererAdapter::render
software_render(attached, in, fail) ==
    IF ~attached THEN [result |-> "Ok", calls |-> <<>>]
    ELSE IF NonZeroU32(size(in)[1]) = "None" \/ NonZeroU32(size(in)[2]) = "None"
         THEN [result |-> "Panic", calls |-> <<>>]
    ELSE IF fail = "resize"
         THEN [result |-> "Err",
               calls |-> <<Call("surface", "resize", size(in), "none")>>]
    ELSE IF fail = "buffer"
         THEN [result |-> "Err",
               calls |-> <<Call("surface", "resize", size(in), "none"),
                           Call("surface", "buffer_mut", <<>>, "none")>>]
    ELSE [result |-> IF fail = "present" THEN "Err" ELSE "Ok",
          calls |-> <<Call("surface", "resize", size(in), "none"),
                      Call("surface", "buffer_mut", <<>>, "none"),
                      Call("renderer", "render", size(in)[1], "none"),
                      Call("surface", "present", <<>>, "none")>>]

\* EmbeddedFemtoVGRendererAdapter::render, EmbeddedSkiaRendererAdapter::render
gpu_render(fail) ==
    [result |-> IF fail = "render" THEN "Err" ELSE "Ok",
     calls |-> <<Call("renderer", "render", <<>>, "none")>>]

renderer_render(rt, attached, in, fail) ==
    IF rt = "Software" THEN software_render(attached, in, fail) ELSE gpu_render(fail)

\* EmbeddedWindowAdapter::on_frame: the calls made and how the call ends.
on_frame(rt, attached, in, fail) ==
    LET r == renderer_render(rt, attached, in, fail)
    IN  [result |-> r.result,
         calls |-> <<Call("engine", "update_timers_and_animations", <<>>, "none"),
                     Call("renderer_adapter", "render", rt, "none")>>
                   \o r.calls
                   \o (IF r.result = "Err" THEN <<Println("render")>> ELSE <<>>)]

\* --------------------------------------------------------- adapter actions

Snapshot == [inner |-> inner, held |-> held, exit_track |-> exit_track,
             failed_renders |-> failed_renders]

HasEvent(cs, ev) == \E i \in 1..Len(cs) : cs[i].to = "engine" /\ cs[i].ev = ev

\* A host call that returns: what it leaves in `inner`, the calls it made and
\* the status handed back.
Handled(op, arg, eff, st) ==
    /\ phase = "open"
    /\ pre' = Snapshot
    /\ last' = [op |-> op, arg |-> arg]
    /\ inner' = eff.inner
    /\ calls' = eff.calls
    /\ status' = st
    /\ UNCHANGED <<renderer_type, surface, phase, host_modifiers>>
    /\ UNCHANGED <<platformVars, frameVars, openVars, pixel, options>>

\* Mutant: set_window unwraps the renderer adapter's result.
AdapterSetWindowUnwrap(fail) ==
    /\ phase = "new"
    /\ LET r == renderer_set_window(renderer_type, inner, fail)
       IN  /\ surface' = (r = "Ok")
           /\ phase' = IF r = "Ok" THEN "open" ELSE "panicked"
           /\ calls' = <<>>
           /\ status' = IF r = "Ok" THEN "Returned" ELSE "Panic"
    /\ pre' = Snapshot
    /\ last' = [op |-> "set_window", arg |-> fail]
    /\ UNCHANGED <<inner, renderer_type, held, host_modifiers, exit_track, last_moved, failed_renders>>

\* EmbeddedWindowAdapter::set_window: its effect on the adapter.
AdapterSetWindow(fail) ==
    /\ phase = "new"
    /\ LET r == renderer_set_window(renderer_type, inner, fail)
       IN  /\ surface' = (r = "Ok")
           /\ phase' = IF r = "Panic" THEN "panicked" ELSE "open"
           /\ calls' = IF r = "Err" THEN <<Println("set_window")>> ELSE <<>>
           /\ status' = IF r = "Panic" THEN "Panic" ELSE "Returned"
    /\ pre' = Snapshot
    /\ last' = [op |-> "set_window", arg |-> fail]
    /\ UNCHANGED <<inner, renderer_type, held, host_modifiers, exit_track, last_moved, failed_renders>>

\* EmbeddedWindowAdapter::set_window, called once in the open callback.
SetWindow(fail) ==
    /\ AdapterSetWindow(fail)
    /\ UNCHANGED <<platformVars, frameVars, openVars, pixel, options>>

CursorMoved(position) ==
    /\ LET eff == on_cursor_moved(inner, position, host_modifiers)
       IN  /\ Handled("CursorMoved", position, eff, "Captured")
           /\ last_moved' = eff.calls[Len(eff.calls)].arg
    /\ UNCHANGED <<held, exit_track, failed_renders>>

ButtonPressed(button) ==
    /\ button \notin held
    /\ Handled("ButtonPressed", button,
               on_button_pressed(inner, button, host_modifiers), "Captured")
    /\ held' = held \cup {button}
    /\ UNCHANGED <<exit_track, last_moved, failed_renders>>

ButtonReleased(button) ==
    /\ button \in held
    /\ LET eff == on_button_released(inner, button, host_modifiers)
       IN  /\ Handled("ButtonReleased", button, eff, "Captured")
           /\ exit_track' = IF HasEvent(eff.calls, "PointerExited")
                            THEN "delivered" ELSE "none"
    /\ held' = held \ {button}
    /\ UNCHANGED <<last_moved, failed_renders>>

WheelScrolled(delta) ==
    /\ Handled("WheelScrolled", delta,
               on_wheel_scrolled(inner, delta, host_modifiers), "Captured")
    /\ UNCHANGED <<held, exit_track, last_moved, failed_renders>>

CursorLeft ==
    /\ Handled("CursorLeft", <<>>, on_cursor_left(inner), "Captured")
    /\ exit_track' = IF inner.mouse_down THEN "owed" ELSE exit_track
    /\ UNCHANGED <<held, last_moved, failed_renders>>

\* Mutant: the wildcard arm falls through to the final Captured.
MouseOtherCaptured(mouse_event) ==
    /\ Handled(mouse_event, <<>>, [inner |-> inner, calls |-> <<>>], "Captured")
    /\ UNCHANGED <<held, exit_track, last_moved, failed_renders>>

\* Any other baseview::MouseEvent (cursor entered, drag events).
MouseOther(mouse_event) ==
    /\ Handled(mouse_event, <<>>, [inner |-> inner, calls |-> <<>>], "Ignored")
    /\ UNCHANGED <<held, exit_track, last_moved, failed_renders>>

Keyboard(key, state, repeat) ==
    /\ Handled("Keyboard", <<key, state, repeat>>,
               on_keyboard(inner, key, state, repeat, host_modifiers), "Captured")
    /\ UNCHANGED <<held, exit_track, last_moved, failed_renders>>

Resized(logical, sc, resize_result) ==
    /\ Handled("Resized", <<logical, sc, resize_result>>,
               on_resized(inner, logical, sc, resize_result), "Captured")
    /\ UNCHANGED <<held, exit_track, last_moved, failed_renders>>

WindowEvent(window_event) ==
    /\ Handled(window_event, <<>>, on_window_event(inner, window_event), "Captured")
    /\ UNCHANGED <<held, exit_track, last_moved, failed_renders>>

\* EmbeddedWindowInterface::set_user_scale_factor
SetUserScaleFactor(user_scale_factor, resize_result) ==
    /\ Handled("set_user_scale_factor", <<user_scale_factor, resize_result>>,
               set_user_scale_factor(inner, user_scale_factor, resize_result), "Returned")
    /\ UNCHANGED <<held, exit_track, last_moved, failed_renders>>

\* Mutant: a frame that follows a failed render skips the render call.
OnFrameBackoff(fail) ==
    /\ phase = "open"
    /\ LET r == IF failed_renders > 0
                THEN [result |-> "Ok",
                      calls |-> <<Call("engine", "update_timers_and_animations", <<>>, "none")>>]
                ELSE on_frame(renderer_type, surface, inner, fail)
       IN  /\ r.result = "Err" => failed_renders < MaxFailures
           /\ calls' = r.calls
           /\ phase' = IF r.result = "Panic" THEN "panicked" ELSE "open"
           /\ status' = IF r.result = "Panic" THEN "Panic" ELSE "Returned"
           /\ failed_renders' = IF r.result = "Err" THEN failed_renders + 1 ELSE 0
    /\ pre' = Snapshot
    /\ last' = [op |-> "on_frame", arg |-> fail]
    /\ UNCHANGED <<inner, renderer_type, surface, held, host_modifiers, exit_track, last_moved>>
    /\ UNCHANGED <<platformVars, frameVars, openVars, pixel, options>>

\* EmbeddedWindowAdapter::on_frame
OnFrame(fail) ==
    /\ phase = "open"
    /\ LET r == on_frame(renderer_type, surface, inner, fail)
       IN  /\ r.result = "Err" => failed_renders < MaxFailures
           /\ calls' = r.calls
           /\ phase' = IF r.result = "Panic" THEN "panicked" ELSE "open"
           /\ status' = IF r.result = "Panic" THEN "Panic" ELSE "Returned"
           /\ failed_renders' = IF r.result = "Err" THEN failed_renders + 1 ELSE 0
    /\ pre' = Snapshot
    /\ last' = [op |-> "on_frame", arg |-> fail]
    /\ UNCHANGED <<inner, renderer_type, surface, held, host_modifiers, exit_track, last_moved>>
    /\ UNCHANGED <<platformVars, frameVars, openVars, pixel, options>>

\* ------------------------------------------------------- specifications

ResizeResults == {"Ok", "Err"}

\* baseview::WindowScalePolicy
ScalePolicies ==
    {<<"SystemScaleFactor", F32(1, 1)>>} \cup {<<"ScaleFactor", s>> : s \in SystemScales}

\* Modifier sets carried by the events of the main specification.
ModifierInputs == {{}, {"SHIFT", "FN"}}

\* Modifier sets of the modifier specification.
ModifierSets ==
    {ms \in SUBSET Modifiers : Cardinality(ms) <= MaxActiveModifiers} \cup {Modifiers}

PlatformIdle == slot = <<>> /\ platform_log = <<>>

FrameIdle ==
    /\ channel = <<>>
    /\ sent = 0
    /\ received = <<>>
    /\ at_start = <<>>
    /\ frame_pc = "idle"
    /\ frames = 0

\* No open callback is running and no pixel has been converted.
OpenIdle ==
    /\ open_pc = "idle"
    /\ opened = 0
    /\ open_log = <<>>
    /\ pixel = [op |-> "none", input |-> <<>>, output |-> <<>>]
    /\ options = [size |-> <<>>, scale |-> <<>>]

\* The adapter as EmbeddedWindowAdapter::new leaves it, for every choice of
\* the construction parameters.
InitAdapter(sizes, user_scales, policies, rts, modifier_sets) ==
    /\ \E sz \in sizes, u \in user_scales, pol \in policies :
         /\ inner = new_inner(sz, u, pol)
         /\ calls = <<Dispatch("ScaleFactorChanged", u)>>
         /\ pre = [inner |-> new_inner(sz, u, pol), held |-> {},
                   exit_track |-> "none", failed_renders |-> 0]
    /\ renderer_type \in rts
    /\ host_modifiers \in modifier_sets
    /\ surface = FALSE
    /\ phase = "new"
    /\ last = [op |-> "new", arg |-> <<>>]
    /\ status = "Returned"
    /\ held = {}
    /\ exit_track = "none"
    /\ last_moved = <<F32(0, 1), F32(0, 1)>>
    /\ failed_renders = 0

\* --- Spec: the event translation of one window (CPU backend, attached).

PointerScales == {F32(1, 2), F32(1, 1), F32(2, 1)}

Init ==
    /\ InitAdapter({<<1, 1>>}, PointerScales, {<<"SystemScaleFactor", F32(1, 1)>>},
                   {"Software"}, ModifierInputs)
    /\ PlatformIdle
    /\ FrameIdle
    /\ OpenIdle

Next ==
    \/ SetWindow("none")
    \/ \E position \in Positions : CursorMoved(position)
    \/ \E button \in Buttons : ButtonPressed(button)
    \/ \E button \in Buttons : ButtonReleased(button)
    \/ \E delta \in ScrollDeltas : WheelScrolled(delta)
    \/ CursorLeft
    \/ \E e \in OtherMouseEvents : MouseOther(e)
    \/ \E key \in Keys, state \in {"Down", "Up"}, repeat \in BOOLEAN :
          Keyboard(key, state, repeat)
    \/ \E sc \in SystemScales : Resized(<<1, 1>>, sc, "Ok")
    \/ \E e \in {"Focused", "Unfocused", "WillClose"} : WindowEvent(e)
    \/ \E u \in PointerScales : SetUserScaleFactor(u, "Ok")
    \/ OnFrame("none")

Spec == Init /\ [][Next]_vars

\* --- SpecRender: sizes, scale factors and the three renderer backends.

InitRender ==
    /\ InitAdapter(LogicalSizes, UserScales, ScalePolicies, RendererTypes, {{}})
    /\ PlatformIdle
    /\ FrameIdle
    /\ OpenIdle

NextRender ==
    \/ \E fail \in AttachFailures(renderer_type) : SetWindow(fail)
    \/ \E logical \in LogicalSizes, sc \in SystemScales, rr \in ResizeResults :
          Resized(logical, sc, rr)
    \/ \E u \in UserScales, rr \in ResizeResults : SetUserScaleFactor(u, rr)
    \/ \E fail \in RenderFailures(renderer_type) : OnFrame(fail)

SpecRender == InitRender /\ [][NextRender]_vars

\* --- SpecModifiers: every event kind that carries modifiers, for each
\* modifier set of ModifierSets.

InitModifiers ==
    /\ InitAdapter({<<1, 1>>}, {F32(1, 1)}, {<<"SystemScaleFactor", F32(1, 1)>>},
                   {"Software"}, ModifierSets)
    /\ PlatformIdle
    /\ FrameIdle
    /\ OpenIdle

NextModifiers ==
    \/ SetWindow("none")
    \/ CursorMoved(<<3, 1>>)
    \/ ButtonPressed("Left")
    \/ ButtonReleased("Left")
    \/ WheelScrolled(<<"Lines", F32(1, 1), F32(2, 1)>>)
    \/ CursorLeft
    \/ \E state \in {"Down", "Up"}, repeat \in BOOLEAN : Keyboard("a", state, repeat)

SpecModifiers == InitModifiers /\ [][NextModifiers]_vars

\* --- SpecPlatform: deposits into and requests from the thread-local slot.

\* The text of the PlatformError::Other a request on an empty slot returns.
NotPrepared == "No WINDOW_ADAPTER_INNER"

\* Mutant: an adapter still in the slot is kept (get_or_insert).
deposit_if_empty(a, adapter) == IF a = <<>> THEN <<adapter>> ELSE a

\* Option::replace on the slot, as the open callback does with a new adapter.
deposit(a, adapter) == <<adapter>>

\* Mutant: the request clones the adapter and leaves it in the slot.
create_window_adapter_peek(a) ==
    IF a # <<>> THEN [slot |-> a, result |-> <<"Ok", a[1]>>]
    ELSE [slot |-> <<>>, result |-> <<"Err", NotPrepared>>]

\* EmbeddedPlatform::create_window_adapter: take() the slot.
create_window_adapter(a) ==
    IF a # <<>> THEN [slot |-> <<>>, result |-> <<"Ok", a[1]>>]
    ELSE [slot |-> <<>>, result |-> <<"Err", NotPrepared>>]

Deposits(log) == {i \in 1..Len(log) : log[i].op = "deposit"}

\* The open callback deposits the adapter it has just built; adapters are
\* numbered in the order they are built.
Deposit ==
    /\ Len(platform_log) < MaxPlatformOps
    /\ LET adapter == Cardinality(Deposits(platform_log)) + 1
       IN  /\ slot' = deposit(slot, adapter)
           /\ platform_log' = Append(platform_log,
                                     [op |-> "deposit", adapter |-> adapter, result |-> <<>>])
    /\ UNCHANGED <<adapterVars, frameVars, openVars, pixel, options>>

\* The engine asks the platform for a window adapter.
CreateWindowAdapter ==
    /\ Len(platform_log) < MaxPlatformOps
    /\ LET r == create_window_adapter(slot)
       IN  /\ slot' = r.slot
           /\ platform_log' = Append(platform_log,
                                     [op |-> "request", adapter |-> 0, result |-> r.result])
    /\ UNCHANGED <<adapterVars, frameVars, openVars, pixel, options>>

InitPlatform ==
    /\ InitAdapter({<<1, 1>>}, {F32(1, 1)}, {<<"SystemScaleFactor", F32(1, 1)>>},
                   {"Software"}, {{}})
    /\ PlatformIdle
    /\ FrameIdle
    /\ OpenIdle

NextPlatform ==
    \/ Deposit
    \/ CreateWindowAdapter

SpecPlatform == InitPlatform /\ [][NextPlatform]_vars

\* --- SpecFrame: producers sending into the channel while the host runs
\* frame callbacks (EmbeddedWindowHandler::on_frame).

\* Mutant: the receiver hands out the newest message first.
try_recv_newest(ch) == [msg |-> ch[Len(ch)], rest |-> SubSeq(ch, 1, Len(ch) - 1)]

\* One step of receiver.try_iter() on a non-empty channel.
try_recv(ch) == [msg |-> Head(ch), rest |-> Tail(ch)]

\* A producer thread sends a message; messages are numbered in arrival order.
Send ==
    /\ sent < MaxMessages
    /\ sent' = sent + 1
    /\ channel' = Append(channel, sent + 1)
    /\ UNCHANGED <<received, at_start, frame_pc, frames>>
    /\ UNCHANGED <<adapterVars, platformVars, openVars, pixel, options>>

\* The host calls on_frame.
FrameBegin ==
    /\ phase = "open"
    /\ frame_pc = "idle"
    /\ frames < MaxFrames
    /\ frame_pc' = "drain"
    /\ frames' = frames + 1
    /\ at_start' = channel
    /\ calls' = <<>>
    /\ last' = [op |-> "handler.on_frame", arg |-> <<>>]
    /\ status' = "Running"
    /\ pre' = Snapshot
    /\ UNCHANGED <<channel, sent, received>>
    /\ UNCHANGED <<inner, renderer_type, surface, phase, held, host_modifiers,
                   exit_track, last_moved, failed_renders>>
    /\ UNCHANGED <<platformVars, openVars, pixel, options>>

\* try_iter yields a message: view.on_message(message).
Drain ==
    /\ frame_pc = "drain"
    /\ channel # <<>>
    /\ LET r == try_recv(channel)
       IN  /\ channel' = r.rest
           /\ received' = Append(received, r.msg)
           /\ calls' = Append(calls, Call("view", "on_message", r.msg, "none"))
    /\ UNCHANGED <<sent, at_start, frame_pc, frames>>
    /\ UNCHANGED <<inner, renderer_type, surface, phase, last, status, pre, held,
                   host_modifiers, exit_track, last_moved, failed_renders>>
    /\ UNCHANGED <<platformVars, openVars, pixel, options>>

\* try_iter finds the channel empty: the loop ends and
\* window_adapter.on_frame() runs.
FrameEnd(fail) ==
    /\ frame_pc = "drain"
    /\ channel = <<>>
    /\ LET r == on_frame(renderer_type, surface, inner, fail)
       IN  /\ r.result = "Err" => failed_renders < MaxFailures
           /\ calls' = calls \o r.calls
           /\ phase' = IF r.result = "Panic" THEN "panicked" ELSE "open"
           /\ status' = IF r.result = "Panic" THEN "Panic" ELSE "Returned"
           /\ failed_renders' = IF r.result = "Err" THEN failed_renders + 1 ELSE 0
    /\ frame_pc' = "idle"
    /\ UNCHANGED <<channel, sent, received, at_start, frames>>
    /\ UNCHANGED <<inner, renderer_type, surface, last, pre, held, host_modifiers,
                   exit_track, last_moved>>
    /\ UNCHANGED <<platformVars, openVars, pixel, options>>

InitFrame ==
    /\ InitAdapter({<<1, 1>>}, {F32(1, 1)}, {<<"SystemScaleFactor", F32(1, 1)>>},
                   {"Software"}, {{}})
    /\ PlatformIdle
    /\ FrameIdle
    /\ OpenIdle

NextFrame ==
    \/ SetWindow("none")
    \/ Send
    \/ FrameBegin
    \/ Drain
    \/ \E fail \in RenderFailures(renderer_type) : FrameEnd(fail)

SpecFrame == InitFrame /\ [][NextFrame]_vars

\* --- SpecOpen: windows opened one after another on one thread; each open
\* runs the callback handed to baseview::Window::open_parented, and the
\* window opened last then receives host events and frames.

OpenSizes == {<<0, 0>>, <<1, 1>>}

OpenStep(window, step, result) == [window |-> window, step |-> step, result |-> result]

StepCount(log, step) == Cardinality({i \in 1..Len(log) : log[i].step = step})

\* The host runs the open callback of the next window: set_platform, whose
\* result (an error once a platform is set) is dropped.
OpenBegin ==
    /\ open_pc = "idle"
    /\ phase # "panicked"
    /\ opened < MaxWindows
    /\ opened' = opened + 1
    /\ open_pc' = "registered"
    /\ open_log' = <<OpenStep(opened + 1, "set_platform", IF opened = 0 THEN "Ok" ELSE "Err")>>
    /\ UNCHANGED <<adapterVars, platformVars, frameVars, pixel, options>>

\* EmbeddedWindowAdapter::new for the window being opened.
OpenNew ==
    /\ open_pc = "registered"
    /\ \E sz \in OpenSizes, rt \in RendererTypes :
         LET in == new_inner(sz, F32(1, 1), <<"SystemScaleFactor", F32(1, 1)>>)
         IN  /\ inner' = in
             /\ renderer_type' = rt
             /\ pre' = [inner |-> in, held |-> {}, exit_track |-> "none",
                        failed_renders |-> 0]
    /\ calls' = <<Dispatch("ScaleFactorChanged", F32(1, 1))>>
    /\ surface' = FALSE
    /\ phase' = "new"
    /\ last' = [op |-> "new", arg |-> <<>>]
    /\ status' = "Returned"
    /\ held' = {}
    /\ exit_track' = "none"
    /\ last_moved' = <<F32(0, 1), F32(0, 1)>>
    /\ failed_renders' = 0
    /\ open_pc' = "constructed"
    /\ open_log' = Append(open_log, OpenStep(opened, "new", "Ok"))
    /\ UNCHANGED <<host_modifiers, opened, platformVars, frameVars, pixel, options>>

\* WINDOW_ADAPTER_INNER.with_borrow_mut(|a| a.replace(window_adapter.clone()));
\* the step records what replace() found in the slot.
OpenDeposit ==
    /\ open_pc = "constructed"
    /\ slot' = deposit(slot, opened)
    /\ open_log' = Append(open_log, OpenStep(opened, "deposit", slot))
    /\ open_pc' = "deposited"
    /\ UNCHANGED <<adapterVars, platform_log, opened, frameVars, pixel, options>>

\* window_adapter.set_window(baseview_window); a panic unwinds the callback.
OpenSetWindow(fail) ==
    /\ open_pc = "deposited"
    /\ AdapterSetWindow(fail)
    /\ open_pc' = IF phase' = "panicked" THEN "unwound" ELSE "attached"
    /\ open_log' = Append(open_log,
                          OpenStep(opened, "set_window",
                                   [fail |-> fail, status |-> status', calls |-> calls']))
    /\ UNCHANGED <<opened, platformVars, frameVars, pixel, options>>

\* build(interface): the caller's view factory is invoked.
OpenBuild ==
    /\ open_pc = "attached"
    /\ open_pc' = "building"
    /\ open_log' = Append(open_log, OpenStep(opened, "build", "Ok"))
    /\ UNCHANGED <<adapterVars, platformVars, opened, frameVars, pixel, options>>

\* Inside the view factory the engine asks the platform for a window
\* adapter, once for each engine window the factory creates.
BuildPull ==
    /\ open_pc = "building"
    /\ StepCount(open_log, "pull") < MaxPulls
    /\ LET r == create_window_adapter(slot)
       IN  /\ slot' = r.slot
           /\ open_log' = Append(open_log, OpenStep(opened, "pull", r.result))
    /\ UNCHANGED <<adapterVars, platform_log, open_pc, opened, frameVars, pixel, options>>

\* The callback returns the EmbeddedWindowHandler.
OpenReturn ==
    /\ open_pc = "building"
    /\ open_pc' = "idle"
    /\ open_log' = Append(open_log, OpenStep(opened, "return", "Ok"))
    /\ UNCHANGED <<adapterVars, platformVars, opened, frameVars, pixel, options>>

\* Outside any open callback the view of an open window creates an engine
\* window, and the engine asks the platform for its adapter.
LatePull ==
    /\ open_pc = "idle"
    /\ phase = "open"
    /\ StepCount(open_log, "late_pull") < MaxPulls
    /\ \E w \in 1..opened :
         LET r == create_window_adapter(slot)
         IN  /\ slot' = r.slot
             /\ open_log' = Append(open_log, OpenStep(w, "late_pull", r.result))
    /\ UNCHANGED <<adapterVars, platform_log, open_pc, opened, frameVars, pixel, options>>

\* The handler the callback returned receives a host event.
OpenedOnEvent ==
    /\ open_pc = "idle"
    /\ CursorMoved(<<3, 1>>)

\* The handler the callback returned receives a frame.
OpenedOnFrame(fail) ==
    /\ open_pc = "idle"
    /\ OnFrame(fail)

\* No window has been opened: no adapter exists, and the adapter variables
\* hold values that EmbeddedWindowAdapter::new replaces.
InitOpen ==
    /\ inner = new_inner(<<0, 0>>, F32(1, 1), <<"SystemScaleFactor", F32(1, 1)>>)
    /\ pre = [inner |-> inner, held |-> {}, exit_track |-> "none", failed_renders |-> 0]
    /\ renderer_type = "Software"
    /\ host_modifiers = {}
    /\ calls = <<>>
    /\ surface = FALSE
    /\ phase = "none"
    /\ last = [op |-> "none", arg |-> <<>>]
    /\ status = "Returned"
    /\ held = {}
    /\ exit_track = "none"
    /\ last_moved = <<F32(0, 1), F32(0, 1)>>
    /\ failed_renders = 0
    /\ PlatformIdle
    /\ FrameIdle
    /\ OpenIdle

NextOpen ==
    \/ OpenBegin
    \/ OpenNew
    \/ OpenDeposit
    \/ \E fail \in AttachFailures(renderer_type) : OpenSetWindow(fail)
    \/ OpenBuild
    \/ BuildPull
    \/ OpenReturn
    \/ LatePull
    \/ OpenedOnEvent
    \/ \E fail \in RenderFailures(renderer_type) : OpenedOnFrame(fail)

SpecOpen == InitOpen /\ [][NextOpen]_vars

\* --- SpecPixel: the conversions of SoftBufferPixel, the u32 word of the
\* CPU backend's buffer.

\* u8 channel values the conversions are applied to.
ChannelValues == {0, 1, 127, 128, 255}

PremultipliedRgbaColors ==
    [red : ChannelValues, green : ChannelValues, blue : ChannelValues, alpha : ChannelValues]

\* A u32 is the tuple of its 32 bits, the most significant first.
WordBits == 32

\* `as u32` of a u8.
U32(x) == [i \in 1..WordBits |-> IF WordBits - i >= 8 THEN 0 ELSE (x \div (2 ^ (WordBits - i))) % 2]

RECURSIVE BitsValue(_)
BitsValue(bits) ==
    IF bits = <<>> THEN 0
    ELSE 2 * BitsValue(SubSeq(bits, 1, Len(bits) - 1)) + bits[Len(bits)]

\* `as u8` of a u32: the low eight bits.
U8(v) == BitsValue(SubSeq(v, WordBits - 7, WordBits))

\* v << n and v >> n on u32.
Shl(v, n) == [i \in 1..WordBits |-> IF i + n <= WordBits THEN v[i + n] ELSE 0]

Shr(v, n) == [i \in 1..WordBits |-> IF i - n >= 1 THEN v[i - n] ELSE 0]

\* a | b on u32.
BitOr(a, b) == [i \in 1..WordBits |-> IF a[i] = 1 \/ b[i] = 1 THEN 1 ELSE 0]

\* Mutant: the word is laid out red, green, blue, alpha.
SoftBufferPixel_from_rgba(color) ==
    BitOr(BitOr(BitOr(Shl(U32(color.red), 24), Shl(U32(color.green), 16)),
                Shl(U32(color.blue), 8)),
          U32(color.alpha))

\* impl From<PremultipliedRgbaColor> for SoftBufferPixel
SoftBufferPixel_from(color) ==
    BitOr(BitOr(BitOr(Shl(U32(color.alpha), 24), Shl(U32(color.red), 16)),
                Shl(U32(color.green), 8)),
          U32(color.blue))

\* impl From<SoftBufferPixel> for PremultipliedRgbaColor
PremultipliedRgbaColor_from(v) ==
    [red |-> U8(Shr(v, 16)),
     green |-> U8(Shr(v, 8)),
     blue |-> U8(Shr(v, 0)),
     alpha |-> U8(Shr(v, 24))]

\* The literal 0xff000000.
AlphaOpaque == [i \in 1..WordBits |-> IF i <= 8 THEN 1 ELSE 0]

\* TargetPixel::from_rgb
from_rgb(r, g, b) ==
    BitOr(BitOr(BitOr(AlphaOpaque, Shl(U32(r), 16)), Shl(U32(g), 8)), U32(b))

\* TargetPixel::background: Self(0)
background == [i \in 1..WordBits |-> 0]

Converted(op, input, output) ==
    /\ pixel' = [op |-> op, input |-> input, output |-> output]
    /\ UNCHANGED <<adapterVars, platformVars, frameVars, openVars, options>>

ColorToPixel ==
    \E color \in PremultipliedRgbaColors :
       Converted("from_color", color, SoftBufferPixel_from(color))

\* TargetPixel::blend's conversions: a pixel made from a color is read back.
ColorToPixelToColor ==
    \E color \in PremultipliedRgbaColors :
       Converted("round_trip", color,
                 PremultipliedRgbaColor_from(SoftBufferPixel_from(color)))

RgbToPixel ==
    \E r \in ChannelValues, g \in ChannelValues, b \in ChannelValues :
       Converted("from_rgb", <<r, g, b>>, from_rgb(r, g, b))

BackgroundPixel == Converted("background", <<>>, background)

InitPixel ==
    /\ InitAdapter({<<1, 1>>}, {F32(1, 1)}, {<<"SystemScaleFactor", F32(1, 1)>>},
                   {"Software"}, {{}})
    /\ PlatformIdle
    /\ FrameIdle
    /\ OpenIdle

NextPixel ==
    \/ ColorToPixel
    \/ ColorToPixelToColor
    \/ RgbToPixel
    \/ BackgroundPixel

SpecPixel == InitPixel /\ [][NextPixel]_vars

\* --- Re-entry: an engine callback run by dispatch_event calls back into the
\* adapter while the dispatching handler is still on the stack.

\* RefCell::borrow ("shared") or RefCell::borrow_mut ("mut") on `inner` while
\* the borrow `outstanding` is alive.
RefCellBorrow(outstanding, access) ==
    IF access = "shared"
    THEN (IF outstanding = "mut" THEN "Panic" ELSE "Ok")
    ELSE (IF outstanding = "none" THEN "Ok" ELSE "Panic")

\* The borrow each adapter entry point an engine callback can reach takes:
\* WindowAdapter::size borrows, set_user_scale_factor borrows mutably.
ReentryAccess == [size |-> "shared", set_user_scale_factor |-> "mut"]

\* What entry point `entry` does when called from inside call c.
Reenter(c, entry) == RefCellBorrow(c.borrow, ReentryAccess[entry])

\* --- SpecHost: a window opened with its WindowOpenOptions, then resized by
\* the host and rescaled by the user.

HostOpenSizes == {<<2, 2>>, <<800, 600>>}

HostUserScales == {F32(1, 2), F32(1, 1), F32(2, 1)}

\* The logical sizes the host reports: those of the opened windows.
HostLogicalSizes ==
    {<<1, 1>>, <<2, 2>>, <<4, 4>>, <<400, 300>>, <<800, 600>>, <<1600, 1200>>}

InitHost ==
    /\ \E pol \in ScalePolicies :
         /\ InitAdapter(HostOpenSizes, HostUserScales, {pol}, {"Software"}, {{}})
         /\ options = WindowOpenOptions(inner.size, inner.user_scale_factor, pol)
    /\ PlatformIdle
    /\ FrameIdle
    /\ open_pc = "idle"
    /\ opened = 0
    /\ open_log = <<>>
    /\ pixel = [op |-> "none", input |-> <<>>, output |-> <<>>]

NextHost ==
    \/ SetWindow("none")
    \/ \E logical \in HostLogicalSizes, sc \in SystemScales : Resized(logical, sc, "Ok")
    \/ \E u \in HostUserScales : SetUserScaleFactor(u, "Ok")

SpecHost == InitHost /\ [][NextHost]_vars

\* ------------------------------------------------------------------ claims

CountEvent(cs, ev) == Cardinality({i \in 1..Len(cs) : cs[i].to = "engine" /\ cs[i].ev = ev})

EngineCalls(cs) == SelectSeq(cs, LAMBDA c : c.to = "engine")

\* C1: a deferred pointer exit is dispatched at most once: a ButtonReleased
\* that follows the ButtonReleased which delivered the deferred PointerExited,
\* with no CursorLeft-while-button-down in between, dispatches no
\* PointerExited.
C1_DeferredExitAtMostOnce ==
    (last.op = "ButtonReleased" /\ pre.exit_track = "delivered")
        => ~HasEvent(calls, "PointerExited")

\* C2: a CursorLeft while the mouse-down flag is set dispatches nothing and
\* the next ButtonReleased dispatches PointerExited directly after its
\* PointerReleased; a CursorLeft while the flag is clear dispatches exactly
\* one PointerExited at once and leaves the deferred-exit flag as it was.
C2_ExitDeferredUntilRelease ==
    /\ (last.op = "CursorLeft" /\ pre.inner.mouse_down)
          => /\ EngineCalls(calls) = <<>>
             /\ inner.pending_mouse_exit
    /\ (last.op = "ButtonReleased" /\ pre.exit_track = "owed")
          => LET es == EngineCalls(calls)
                 n == Len(es)
             IN  /\ n >= 2
                 /\ es[n].ev = "PointerExited"
                 /\ es[n - 1].ev = "PointerReleased"
                 /\ CountEvent(calls, "PointerExited") = 1
                 /\ CountEvent(calls, "PointerReleased") = 1
    /\ (last.op = "CursorLeft" /\ ~pre.inner.mouse_down)
          => /\ Len(EngineCalls(calls)) = 1
             /\ EngineCalls(calls)[1].ev = "PointerExited"
             /\ inner.pending_mouse_exit = pre.inner.pending_mouse_exit

\* A release that delivers an exit deferred by a CursorLeft while the button
\* was down.
C2_Witness ==
    /\ last.op = "ButtonReleased"
    /\ pre.exit_track = "owed"
    /\ HasEvent(calls, "PointerExited")

\* C10: the mouse-down condition is true exactly when at least one button is
\* held, so a CursorLeft received while a button is held dispatches no
\* PointerExited.
C10_MouseDownIffButtonHeld ==
    /\ inner.mouse_down <=> (held # {})
    /\ (last.op = "CursorLeft" /\ pre.held # {}) => ~HasEvent(calls, "PointerExited")

\* p is the u32 cast of logical dimension l (a rational) times both factors:
\* p <= l * system * user < p + 1, in integers.
IsComposite(p, l, in) ==
    LET num == l[1] * in.system_scale_factor[1] * in.user_scale_factor[1]
        den == l[2] * in.system_scale_factor[2] * in.user_scale_factor[2]
    IN  p * den <= num /\ num < (p + 1) * den

\* C4: in every state size() is the stored logical size times the system
\* scale factor times the user scale factor, and every size handed to the
\* renderer's resize is that composite value.
C4_PhysicalSizeIsComposite ==
    /\ IsComposite(size(inner)[1], inner.size[1], inner)
    /\ IsComposite(size(inner)[2], inner.size[2], inner)
    /\ \A i \in 1..Len(calls) :
          (calls[i].to = "renderer" /\ calls[i].ev = "resize")
             => /\ IsComposite(calls[i].arg[1], inner.size[1], inner)
                /\ IsComposite(calls[i].arg[2], inner.size[2], inner)

\* A rescale after a resize, with both factors different from 1 and a
\* non-zero size, has resized the renderer.
C4_Witness ==
    /\ last.op = "set_user_scale_factor"
    /\ inner.user_scale_factor = F32(2, 1)
    /\ inner.system_scale_factor = F32(2, 1)
    /\ inner.size = LogicalSize(<<800, 600>>)
    /\ calls[1].arg = <<3200, 2400>>

\* C7: no backend failure aborts the host: set_window, on_frame and on_event
\* always return control to the host.
C7_NoPanic == phase # "panicked"

HasCall(cs, to, ev) == \E i \in 1..Len(cs) : cs[i].to = to /\ cs[i].ev = ev

\* C8: every frame callback that returns has made exactly one render call,
\* whatever the earlier frames' outcomes; when no backend step fails the
\* frame renders normally and nothing is logged.
C8_RenderAttemptedEveryFrame ==
    (last.op = "on_frame" /\ status = "Returned")
        => /\ Len(calls) >= 2
           /\ calls[1] = Call("engine", "update_timers_and_animations", <<>>, "none")
           /\ calls[2].to = "renderer_adapter" /\ calls[2].ev = "render"
           /\ Cardinality({i \in 1..Len(calls) : calls[i].to = "renderer_adapter"}) = 1
           /\ last.arg = "none"
                 => /\ ~HasCall(calls, "log", "println")
                    /\ (HasCall(calls, "renderer", "render")
                          \/ (renderer_type = "Software" /\ ~surface))

\* A frame that renders after MaxFailures consecutive failed renders.
C8_Witness ==
    /\ last.op = "on_frame"
    /\ pre.failed_renders = MaxFailures
    /\ MaxFailures >= 2
    /\ surface
    /\ last.arg = "none"
    /\ status = "Returned"
    /\ HasCall(calls, "renderer", "render")
    /\ ~HasCall(calls, "log", "println")

\* The modifiers the claims name as mapped to a code, in the claimed order.
MappedInOrder ==
    <<"ALT", "ALT_GRAPH", "CAPS_LOCK", "CONTROL", "META", "SCROLL_LOCK", "SHIFT", "SUPER">>

\* The claimed synthetic key presses for a modifier set: one per active
\* mapped modifier, in the claimed order.
ExpectedSynthetic(modifiers) ==
    LET active == SelectSeq(MappedInOrder, LAMBDA m : m \in modifiers)
    IN  [i \in 1..Len(active) |-> Dispatch("KeyPressed", convert_modifier(active[i]))]

IsKeyUp == last.op = "Keyboard" /\ last.arg[2] = "Up"

\* C5 as stated: a keyboard-up event dispatches exactly one KeyReleased and
\* no synthetic modifier key-press, whatever modifiers are active.
C5_KeyUpDispatchesOnlyRelease ==
    IsKeyUp => calls = <<Dispatch("KeyReleased", modifier_to_char(last.arg[1]))>>

\* C5 amended: a keyboard-up event dispatches exactly one KeyReleased, as its
\* last event, preceded by one synthetic KeyPressed per active mapped
\* modifier and by nothing else.
C5_KeyUpReleaseAfterModifiers ==
    IsKeyUp =>
        /\ calls = ExpectedSynthetic(host_modifiers)
                   \o <<Dispatch("KeyReleased", modifier_to_char(last.arg[1]))>>
        /\ CountEvent(calls, "KeyReleased") = 1
        /\ CountEvent(calls, "KeyPressed")
              = Cardinality(host_modifiers \cap {MappedInOrder[i] : i \in 1..Len(MappedInOrder)})

\* A key-up event with SHIFT and CONTROL active.
C5_Witness ==
    /\ IsKeyUp
    /\ host_modifiers = {"SHIFT", "CONTROL"}
    /\ Len(calls) = 3

\* The engine event a host event translates to.
RealEvent ==
    CASE last.op = "CursorMoved" -> "PointerMoved"
      [] last.op = "ButtonPressed" -> "PointerPressed"
      [] last.op = "ButtonReleased" -> "PointerReleased"
      [] last.op = "WheelScrolled" -> "PointerScrolled"
      [] last.op = "Keyboard" -> IF last.arg[3] THEN "KeyPressRepeated" ELSE "KeyPressed"

\* C6: pointer move, button press, button release, wheel and key down
\* dispatch, before the real event, exactly one synthetic KeyPressed per
\* active mapped modifier, in the fixed order; unmapped and inactive
\* modifiers dispatch nothing; control and super share one code.
C6_ModifiersBeforeRealEvent ==
    /\ convert_modifier("CONTROL") = convert_modifier("SUPER")
    /\ (\/ last.op \in {"CursorMoved", "ButtonPressed", "ButtonReleased", "WheelScrolled"}
        \/ (last.op = "Keyboard" /\ last.arg[2] = "Down"))
          => LET expected == ExpectedSynthetic(host_modifiers)
                 n == Len(expected)
             IN  /\ Len(calls) > n
                 /\ SubSeq(calls, 1, n) = expected
                 /\ \A i \in 1..n : calls[i].arg # ""
                 /\ calls[n + 1].to = "engine"
                 /\ calls[n + 1].ev = RealEvent
                 /\ calls[n + 1].ev = "KeyPressed" => calls[n + 1].arg = modifier_to_char(last.arg[1])
                 /\ \A i \in (n + 2)..Len(calls) : calls[i].ev = "PointerExited"

\* A button press carrying all fourteen modifiers: eight synthetic presses,
\* then the press.
C6_Witness ==
    /\ last.op = "ButtonPressed"
    /\ host_modifiers = Modifiers
    /\ Len(calls) = 9
    /\ calls[9].ev = "PointerPressed"

\* The deposits made before request i and after the request before it.
PendingAt(log, i) ==
    {j \in Deposits(log) : j < i /\ \A k \in (j + 1)..(i - 1) : log[k].op # "request"}

Newest(S) == CHOOSE j \in S : \A k \in S : k <= j

\* C3: a request with no adapter deposited since the previous request fails
\* with the "not prepared" error; after a deposit exactly one request
\* succeeds, returning the deposited adapter; every request leaves the slot
\* empty.
C3_RequestSucceedsOncePerDeposit ==
    /\ \A i \in 1..Len(platform_log) :
          platform_log[i].op = "request"
             => IF PendingAt(platform_log, i) = {}
                THEN platform_log[i].result = <<"Err", NotPrepared>>
                ELSE platform_log[i].result
                        = <<"Ok", platform_log[Newest(PendingAt(platform_log, i))].adapter>>
    /\ (platform_log # <<>> /\ platform_log[Len(platform_log)].op = "request")
          => slot = <<>>

\* A request before any deposit, then a deposit followed by two requests.
C3_Witness ==
    /\ Len(platform_log) = 4
    /\ platform_log[1].op = "request" /\ platform_log[1].result[1] = "Err"
    /\ platform_log[2].op = "deposit"
    /\ platform_log[3].op = "request" /\ platform_log[3].result = <<"Ok", 1>>
    /\ platform_log[4].op = "request" /\ platform_log[4].result[1] = "Err"

Messages(cs) == SelectSeq(cs, LAMBDA c : c.to = "view")

\* C9: every message in the channel when a frame callback starts is handed
\* to on_message exactly once, in arrival order, before the frame's single
\* timer update, which precedes its single render call; over all frames no
\* message is lost, duplicated or reordered.
C9_DrainThenTickThenRender ==
    /\ received \o channel = [i \in 1..sent |-> i]
    /\ frames > 0 =>
          LET ms == Messages(calls)
              k == Len(ms)
          IN  /\ \A i \in 1..k : calls[i].to = "view" /\ calls[i].ev = "on_message"
              /\ k <= Len(received)
              /\ \A i \in 1..k : ms[i].arg = received[Len(received) - k + i]
              /\ frame_pc = "drain" => Len(calls) = k
              /\ frame_pc = "idle" =>
                    /\ Len(at_start) <= k
                    /\ \A i \in 1..Len(at_start) : ms[i].arg = at_start[i]
                    /\ Len(calls) >= k + 1
                    /\ calls[k + 1].ev = "update_timers_and_animations"
                    /\ Cardinality({i \in 1..Len(calls) :
                                      calls[i].ev = "update_timers_and_animations"}) = 1
                    /\ status = "Returned" =>
                          /\ calls[k + 2].to = "renderer_adapter"
                          /\ Cardinality({i \in 1..Len(calls) :
                                            calls[i].to = "renderer_adapter"}) = 1

\* A second frame that starts with two messages queued and delivers both
\* before it renders.
C9_Witness ==
    /\ frames = 2
    /\ frame_pc = "idle"
    /\ status = "Returned"
    /\ Len(at_start) = 2
    /\ Len(Messages(calls)) >= 2
    /\ received # <<>> /\ Len(received) > Len(Messages(calls))
    /\ HasCall(calls, "surface", "present")

\* The factors in force for a conversion: a system and a user scale factor.
Factors(system, user) == [system_scale_factor |-> system, user_scale_factor |-> user]

RendererResizes(cs) == SelectSeq(cs, LAMBDA c : c.to = "renderer" /\ c.ev = "resize")

\* C11: a host Resized event stores the reported logical size and system
\* scale factor, then resizes the renderer once to the physical size
\* recomputed from them, then dispatches exactly one Resized event carrying
\* the new logical size, as its last call; with user scale 1, logical
\* (800, 600) and reported scale 2 the renderer is resized to (1600, 1200).
C11_ResizedStoreResizeDispatch ==
    last.op = "Resized" =>
        LET logical == last.arg[1]
            f == Factors(last.arg[2], pre.inner.user_scale_factor)
        IN  /\ inner.size = LogicalSize(logical)
            /\ inner.system_scale_factor = last.arg[2]
            /\ inner.user_scale_factor = pre.inner.user_scale_factor
            /\ Len(RendererResizes(calls)) = 1
            /\ calls[1].to = "renderer" /\ calls[1].ev = "resize"
            /\ IsComposite(calls[1].arg[1], <<logical[1], 1>>, f)
            /\ IsComposite(calls[1].arg[2], <<logical[2], 1>>, f)
            /\ EngineCalls(calls) = <<Dispatch("Resized", LogicalSize(logical))>>
            /\ calls[Len(calls)].to = "engine"
            /\ (logical = <<800, 600>> /\ last.arg[2] = F32(2, 1)
                  /\ pre.inner.user_scale_factor = F32(1, 1))
                  => calls[1].arg = <<1600, 1200>>

\* The resize of the worked example, arriving while the system scale
\* factor was 1.
C11_Witness ==
    /\ last.op = "Resized"
    /\ last.arg[1] = <<800, 600>>
    /\ last.arg[2] = F32(2, 1)
    /\ pre.inner.system_scale_factor = F32(1, 1)
    /\ inner.user_scale_factor = F32(1, 1)
    /\ calls[1].arg = <<1600, 1200>>
    /\ calls[Len(calls)] = Dispatch("Resized", LogicalSize(<<800, 600>>))

\* q is the f32 quotient of the integer p by the factor u: q * u = p, or the
\* IEEE result of a division by zero.
IsQuotient(q, p, u) ==
    IF u[1] = 0 THEN q = (IF p = 0 THEN <<0, 0>> ELSE <<1, 0>>)
    ELSE q[2] # 0 /\ q[1] * u[1] = p * u[2] * q[2]

\* C12: each CursorMoved dispatches one PointerMoved whose position is the
\* host-reported position divided by the user scale factor in force on
\* arrival, whatever the system scale factor is; the user scale factor in
\* force is the one the last set_user_scale_factor stored: no other
\* operation, Resized included, changes it.
C12_PointerDividedByUserScale ==
    /\ last.op = "CursorMoved" =>
          LET u == pre.inner.user_scale_factor
              es == EngineCalls(calls)
              moved == es[Len(es)]
          IN  /\ moved.ev = "PointerMoved"
              /\ CountEvent(calls, "PointerMoved") = 1
              /\ IsQuotient(moved.arg[1], last.arg[1], u)
              /\ IsQuotient(moved.arg[2], last.arg[2], u)
              /\ inner.mouse_pos = moved.arg
    /\ last.op = "set_user_scale_factor" => inner.user_scale_factor = last.arg[1]
    /\ last.op \notin {"set_user_scale_factor", "new"}
          => inner.user_scale_factor = pre.inner.user_scale_factor

\* A move to (3, 1) after a Resized set the system scale factor to 2 and
\* set_user_scale_factor set the user scale factor to 2: (3/2, 1/2).
C12_Witness ==
    /\ last.op = "CursorMoved"
    /\ last.arg = <<3, 1>>
    /\ inner.system_scale_factor = F32(2, 1)
    /\ inner.user_scale_factor = F32(2, 1)
    /\ calls[Len(calls)] = Dispatch("PointerMoved", <<F32(3, 2), F32(1, 2)>>)

\* C13: set_user_scale_factor(f) stores f, then resizes the renderer once to
\* the physical size recomputed with f, then dispatches exactly one
\* ScaleFactorChanged carrying f, as its last call; afterwards size() is
\* computed with f and a pointer move arriving next is divided by f.
C13_SetUserScaleStoreResizeDispatch ==
    last.op = "set_user_scale_factor" =>
        LET f == last.arg[1]
            g == Factors(pre.inner.system_scale_factor, f)
        IN  /\ inner = [pre.inner EXCEPT !.user_scale_factor = f]
            /\ Len(RendererResizes(calls)) = 1
            /\ calls[1].to = "renderer" /\ calls[1].ev = "resize"
            /\ IsComposite(calls[1].arg[1], inner.size[1], g)
            /\ IsComposite(calls[1].arg[2], inner.size[2], g)
            /\ EngineCalls(calls) = <<Dispatch("ScaleFactorChanged", f)>>
            /\ calls[Len(calls)].to = "engine"
            /\ size(inner) = calls[1].arg
            /\ \A position \in Positions :
                  LET moved == on_cursor_moved(inner, position, {}).calls[1]
                  IN  /\ IsQuotient(moved.arg[1], position[1], f)
                      /\ IsQuotient(moved.arg[2], position[2], f)

\* The user scale factor goes from 2 to 1/2 on an (800, 600) window at system
\* scale 2, and the renderer's resize fails.
C13_Witness ==
    /\ last.op = "set_user_scale_factor"
    /\ last.arg = <<F32(1, 2), "Err">>
    /\ pre.inner.user_scale_factor = F32(2, 1)
    /\ inner.system_scale_factor = F32(2, 1)
    /\ calls = <<Call("renderer", "resize", <<800, 600>>, "none"), Println("resize"),
                 Dispatch("ScaleFactorChanged", F32(1, 2))>>
    /\ size(inner) = <<800, 600>>

\* C14: the slot holds an adapter only between a window's deposit and the
\* first pull of that window's view factory, and then that window's adapter;
\* no deposit finds an adapter in the slot; a request that succeeds returns
\* the adapter of the window the request belongs to; once the open callback
\* has returned its adapter has been handed out exactly once.
C14_SlotHeldOnlyDuringOwnOpen ==
    /\ slot # <<>> =>
          /\ open_pc \in {"deposited", "attached", "building"}
          /\ slot = <<opened>>
          /\ StepCount(open_log, "pull") = 0
    /\ \A i \in 1..Len(open_log) :
          /\ open_log[i].step = "deposit" => open_log[i].result = <<>>
          /\ (open_log[i].step \in {"pull", "late_pull"} /\ open_log[i].result[1] = "Ok")
                => open_log[i].result[2] = open_log[i].window
    /\ (open_pc = "idle" /\ opened > 0) =>
          Cardinality({i \in 1..Len(open_log) :
                          /\ open_log[i].step = "pull"
                          /\ open_log[i].result = <<"Ok", opened>>}) = 1

\* The attach of the window opened last returned an error: the renderer
\* adapter's set_window, for the failing backend step the host chose.
AttachErred ==
    \E i \in 1..Len(open_log) :
       /\ open_log[i].step = "set_window"
       /\ renderer_set_window(renderer_type, inner, open_log[i].result.fail) = "Err"

StepAt(log, step) == CHOOSE i \in 1..Len(log) : log[i].step = step

\* The window opened last runs without a surface: its open callback has
\* returned the handler although no attach succeeded.
Degraded == open_pc = "idle" /\ opened > 0 /\ ~surface /\ phase = "open"

\* C15: when the attach returns an error, the error is logged by one println
\* and the open callback goes on: it does not unwind, the view factory is
\* invoked next and then the handler is returned; the window is then open
\* without a surface, its host events are still translated and its frames
\* still ticked.
C15_AttachFailureDegrades ==
    /\ AttachErred =>
          /\ phase = "open"
          /\ open_pc \in {"attached", "building", "idle"}
          /\ ~surface
          /\ open_log[StepAt(open_log, "set_window")].result.status = "Returned"
          /\ open_log[StepAt(open_log, "set_window")].result.calls
                = <<Println("set_window")>>
          /\ open_pc \in {"building", "idle"} =>
                StepAt(open_log, "build") = StepAt(open_log, "set_window") + 1
          /\ open_pc = "idle" =>
                /\ StepCount(open_log, "return") = 1
                /\ StepAt(open_log, "return") > StepAt(open_log, "build")
    /\ (Degraded /\ last.op = "CursorMoved") =>
          /\ status = "Captured"
          /\ calls = <<Dispatch("PointerMoved", inner.mouse_pos)>>
    /\ (Degraded /\ last.op = "on_frame") =>
          /\ status = "Returned"
          /\ calls[1] = Call("engine", "update_timers_and_animations", <<>>, "none")
          /\ calls[2].to = "renderer_adapter" /\ calls[2].ev = "render"

\* A window whose attach failed has had a pointer move translated after a
\* frame was ticked.
C15_Witness ==
    /\ Degraded
    /\ renderer_type = "FemtoVG"
    /\ StepCount(open_log, "pull") = 1
    /\ pre.failed_renders = 1
    /\ last.op = "CursorMoved"
    /\ calls = <<Dispatch("PointerMoved", <<F32(3, 1), F32(1, 1)>>)>>

\* The statements of the open callback up to the view factory, in the
\* claimed order.
OpenOrder == <<"set_platform", "new", "deposit", "set_window", "build">>

\* The steps of the open callback that is running or ran last.
OwnSteps == SelectSeq(open_log, LAMBDA e : e.step # "late_pull")

\* C20: the open callback runs platform registration, adapter construction,
\* deposit, renderer attach, view factory, handler return in this order, every
\* engine pull of the view factory falling between its invocation and the
\* return; the first pull made inside the view factory succeeds with the
\* adapter of the window being opened.
C20_OpenCallbackOrder ==
    /\ \A i \in 1..Len(OwnSteps) :
          /\ OwnSteps[i].window = opened
          /\ i <= Len(OpenOrder) => OwnSteps[i].step = OpenOrder[i]
          /\ i > Len(OpenOrder) => OwnSteps[i].step \in {"pull", "return"}
          /\ OwnSteps[i].step = "return" => i = Len(OwnSteps)
    /\ \A i \in 1..Len(open_log) :
          open_log[i].step = "late_pull" => StepAt(open_log, "return") < i
    /\ (open_pc = "idle" /\ opened > 0) => OwnSteps[Len(OwnSteps)].step = "return"
    /\ (Len(OwnSteps) > Len(OpenOrder) /\ OwnSteps[Len(OpenOrder) + 1].step = "pull")
          => OwnSteps[Len(OpenOrder) + 1].result = <<"Ok", opened>>

\* The second window's open callback has returned; its deposit found the
\* first window's adapter still in the slot, and its view factory's first
\* pull got the second window's adapter and its second pull an error.
C20_Witness ==
    /\ opened = 2
    /\ open_pc = "idle"
    /\ Len(OwnSteps) = 8
    /\ OwnSteps[3].result = <<1>>
    /\ OwnSteps[6].result = <<"Ok", 2>>
    /\ OwnSteps[7].result = <<"Err", NotPrepared>>
    /\ OwnSteps[8].step = "return"

\* C16: a frame of the CPU backend while no attach has succeeded returns to
\* the host having made the timer update and the render call and nothing
\* else: no surface resize, no buffer, no draw, no present, no log line,
\* whatever the size and whatever backend step would fail; the adapter's
\* state is as before the frame.
C16_UnattachedCpuRenderIsNoOp ==
    (last.op = "on_frame" /\ renderer_type = "Software" /\ ~surface) =>
        /\ status = "Returned"
        /\ phase = "open"
        /\ calls = <<Call("engine", "update_timers_and_animations", <<>>, "none"),
                     Call("renderer_adapter", "render", "Software", "none")>>
        /\ inner = pre.inner
        /\ failed_renders = 0

\* A frame of an unattached CPU backend with physical size (0, 0), in which
\* the surface's present would fail.
C16_Witness ==
    /\ last.op = "on_frame"
    /\ last.arg = "present"
    /\ renderer_type = "Software"
    /\ ~surface
    /\ size(inner) = <<0, 0>>
    /\ status = "Returned"
    /\ Len(calls) = 2

\* The host events on_event has an arm for.
HandledEvents ==
    {"CursorMoved", "ButtonPressed", "ButtonReleased", "WheelScrolled", "CursorLeft",
     "Keyboard", "Resized", "Focused", "Unfocused", "WillClose"}

\* C17: on_event returns Captured for cursor-moved, button-pressed,
\* button-released, wheel-scrolled, cursor-left and every keyboard and window
\* event, and Ignored for every other mouse event; an Ignored event makes no
\* call and leaves the window state as it was.
C17_IgnoredExactlyOtherMouse ==
    /\ last.op \in HandledEvents => status = "Captured"
    /\ last.op \in OtherMouseEvents => status = "Ignored"
    /\ status = "Ignored" =>
          /\ last.op \in OtherMouseEvents
          /\ calls = <<>>
          /\ inner = pre.inner
          /\ held = pre.held

\* A drop event arriving while a button is down and an exit is deferred.
C17_Witness ==
    /\ last.op = "DragDropped"
    /\ status = "Ignored"
    /\ inner.mouse_down
    /\ inner.pending_mouse_exit
    /\ host_modifiers # {}

\* q is sixty times the f32 x.
IsSixtyTimes(q, x) == q[2] # 0 /\ q[1] * x[2] = 60 * x[1] * q[2]

\* C18: a wheel event dispatches one PointerScrolled carrying the stored
\* pointer position, which it leaves as it was; a Lines delta (x, y) is
\* dispatched as (60 * x, 60 * y), so (1, 2) as (60, 120), and a Pixels
\* delta as the same two values.
C18_WheelLinesTimesSixty ==
    last.op = "WheelScrolled" =>
        LET delta == last.arg
            es == EngineCalls(calls)
            scrolled == es[Len(es)]
        IN  /\ scrolled.ev = "PointerScrolled"
            /\ CountEvent(calls, "PointerScrolled") = 1
            /\ scrolled.arg[1] = pre.inner.mouse_pos
            /\ inner = pre.inner
            /\ delta[1] = "Lines" =>
                  /\ IsSixtyTimes(scrolled.arg[2][1], delta[2])
                  /\ IsSixtyTimes(scrolled.arg[2][2], delta[3])
            /\ delta[1] = "Pixels" => scrolled.arg[2] = <<delta[2], delta[3]>>
            /\ delta = <<"Lines", <<1, 1>>, <<2, 1>>>>
                  => scrolled.arg[2] = <<<<60, 1>>, <<120, 1>>>>

\* A scroll by (1, 2) lines with the pointer last seen at (3/2, 1/2).
C18_Witness ==
    /\ last.op = "WheelScrolled"
    /\ last.arg = <<"Lines", <<1, 1>>, <<2, 1>>>>
    /\ calls[Len(calls)].arg = <<<<F32(3, 2), F32(1, 2)>>, <<<<60, 1>>, <<120, 1>>>>>>

\* Byte k of a word, byte 1 being the most significant.
ByteOf(word, k) == BitsValue(SubSeq(word, 8 * k - 7, 8 * k))

\* The word's four bytes are a, r, g, b from the most to the least
\* significant.
IsArgbWord(word, a, r, g, b) ==
    /\ Len(word) = 32
    /\ ByteOf(word, 1) = a
    /\ ByteOf(word, 2) = r
    /\ ByteOf(word, 3) = g
    /\ ByteOf(word, 4) = b

\* C19: the pixel word of a color is alpha<<24 | red<<16 | green<<8 | blue,
\* and converting it back gives the color; from_rgb(r, g, b) is the word
\* with alpha 255 and the same layout; the background pixel is the word 0.
C19_PixelWordIsArgb ==
    /\ pixel.op = "from_color" =>
          IsArgbWord(pixel.output, pixel.input.alpha, pixel.input.red,
                     pixel.input.green, pixel.input.blue)
    /\ pixel.op = "round_trip" => pixel.output = pixel.input
    /\ pixel.op = "from_rgb" =>
          IsArgbWord(pixel.output, 255, pixel.input[1], pixel.input[2], pixel.input[3])
    /\ pixel.op = "background" => IsArgbWord(pixel.output, 0, 0, 0, 0)

\* The color (red 1, green 128, blue 255, alpha 127) has gone to a pixel
\* and back.
C19_Witness ==
    /\ pixel.op = "round_trip"
    /\ pixel.input = [red |-> 1, green |-> 128, blue |-> 255, alpha |-> 127]
    /\ pixel.output.alpha = 127
    /\ IsArgbWord(SoftBufferPixel_from(pixel.input), 127, 1, 128, 255)

\* C21: every PointerPressed, PointerReleased and PointerScrolled carries the
\* position of the most recently dispatched PointerMoved, (0, 0) before the
\* first one; the stored position is that position, and no operation other
\* than a pointer move changes it.
C21_PositionIsLastMoved ==
    /\ inner.mouse_pos = last_moved
    /\ last.op # "CursorMoved" => inner.mouse_pos = pre.inner.mouse_pos
    /\ \A i \in 1..Len(calls) :
          (calls[i].to = "engine"
             /\ calls[i].ev \in {"PointerPressed", "PointerReleased", "PointerScrolled"})
             => calls[i].arg[1] = last_moved

\* A press at (3/2, 1/2), the position of a move made at user scale 2, after
\* the user scale factor was set to 1/2 and the system scale factor to 2.
C21_Witness ==
    /\ last.op = "ButtonPressed"
    /\ last_moved = <<F32(3, 2), F32(1, 2)>>
    /\ inner.user_scale_factor = F32(1, 2)
    /\ inner.system_scale_factor = F32(2, 1)
    /\ inner.pending_mouse_exit
    /\ calls[Len(calls)].arg[1] = <<F32(3, 2), F32(1, 2)>>

\* The result the renderer's resize returned in the last operation.
ResizeResult == IF last.op = "Resized" THEN last.arg[3] ELSE last.arg[2]

\* C22: when the renderer's resize returns an error in a Resized event or a
\* set_user_scale_factor call, one line is logged right after the resize,
\* the window state holds the new size and scale factors, the engine event is
\* still dispatched exactly once, after the log line, and the operation
\* returns (Captured for the Resized event); nothing is logged when the
\* resize succeeds.
C22_ResizeErrorNoRollback ==
    last.op \in {"Resized", "set_user_scale_factor"} =>
        /\ phase = "open"
        /\ ResizeResult = "Ok" => ~HasCall(calls, "log", "println")
        /\ ResizeResult = "Err" =>
              /\ calls[1].to = "renderer" /\ calls[1].ev = "resize"
              /\ calls[2] = Println("resize")
              /\ Len(calls) = 3
              /\ calls[3].to = "engine"
              /\ last.op = "Resized" =>
                    /\ inner = [pre.inner EXCEPT !.size = LogicalSize(last.arg[1]),
                                                 !.system_scale_factor = last.arg[2]]
                    /\ calls[3] = Dispatch("Resized", LogicalSize(last.arg[1]))
                    /\ status = "Captured"
              /\ last.op = "set_user_scale_factor" =>
                    /\ inner = [pre.inner EXCEPT !.user_scale_factor = last.arg[1]]
                    /\ calls[3] = Dispatch("ScaleFactorChanged", last.arg[1])
                    /\ status = "Returned"

\* A Resized event from (1, 1) at scale 1 to (800, 600) at scale 2 whose
\* renderer resize failed.
C22_Witness ==
    /\ last.op = "Resized"
    /\ last.arg = <<<<800, 600>>, F32(2, 1), "Err">>
    /\ pre.inner.size = LogicalSize(<<1, 1>>)
    /\ pre.inner.system_scale_factor = F32(1, 1)
    /\ inner.size = LogicalSize(<<800, 600>>)
    /\ inner.system_scale_factor = F32(2, 1)
    /\ Len(calls) = 3
    /\ status = "Captured"

\* The window-state fields in which two states differ.
ChangedFields(before, after) == {f \in DOMAIN before : before[f] # after[f]}

\* The window-state fields the claim allows the last operation to change.
OwnFields ==
    CASE last.op = "CursorMoved" -> {"mouse_pos"}
      [] last.op \in {"ButtonPressed", "ButtonReleased"} -> {"mouse_down"}
      [] last.op = "CursorLeft" -> {"pending_mouse_exit"}
      [] last.op = "Resized" -> {"size", "system_scale_factor"}
      [] last.op = "set_user_scale_factor" -> {"user_scale_factor"}
      [] OTHER -> {}

\* C23: keyboard, focus, unfocus, close-requested and wheel events and
\* on_frame leave every window-state field unchanged; a pointer move changes
\* only the stored position, a button press or release only the mouse-down
\* flag, CursorLeft only the deferred-exit flag, Resized only the logical
\* size and the system scale factor, set_user_scale_factor only the user
\* scale factor.
C23_OperationsChangeOwnFields ==
    /\ DOMAIN inner = DOMAIN pre.inner
    /\ ChangedFields(pre.inner, inner) \subseteq OwnFields

\* A release that clears the mouse-down flag and leaves the deferred-exit
\* flag set.
C23_Witness ==
    /\ last.op = "ButtonReleased"
    /\ ChangedFields(pre.inner, inner) = {"mouse_down"}
    /\ inner.pending_mouse_exit
    /\ HasEvent(calls, "PointerExited")

\* C24: no engine event is dispatched while `inner` is borrowed, so a
\* callback that re-enters size() or set_user_scale_factor during any
\* dispatch finds the cell free.
C24_NoDispatchWhileBorrowed ==
    \A i \in 1..Len(calls) :
       calls[i].to = "engine" =>
          /\ calls[i].borrow = "none"
          /\ \A entry \in DOMAIN ReentryAccess : Reenter(calls[i], entry) = "Ok"

\* The physical size of the host window: its logical size times its scale.
HostPhysicalSize(logical, sc) == to_physical(logical, sc)

\* The adapter still holds the size the window was opened with.
AtOpenedSize(in) ==
    <<F32Mul(in.size[1], in.user_scale_factor),
      F32Mul(in.size[2], in.user_scale_factor)>> = options.size

\* C25: for every user scale factor, size() is the host window's physical
\* size (the logical size times the scale the host reports): when the window
\* has been opened under an explicit scale factor, and after every Resized
\* event; a Resized event that reports the size and the scale the window
\* was opened with leaves size() as it was.
C25_SizeAgreesWithHost ==
    /\ (last.op \in {"new", "set_window"} /\ options.scale[1] = "ScaleFactor")
          => size(inner) = HostPhysicalSize(options.size, options.scale[2])
    /\ last.op = "Resized"
          => size(inner) = HostPhysicalSize(LogicalSize(last.arg[1]), last.arg[2])
    /\ (/\ last.op = "Resized"
        /\ AtOpenedSize(pre.inner)
        /\ LogicalSize(last.arg[1]) = options.size
        /\ last.arg[2] = pre.inner.system_scale_factor)
          => size(inner) = size(pre.inner)

\* The part of C25 that the code keeps: at window open, and after a Resized
\* event while the user scale factor is 1.
C25_AgreesAtUserScaleOne ==
    /\ (last.op \in {"new", "set_window"} /\ options.scale[1] = "ScaleFactor")
          => size(inner) = HostPhysicalSize(options.size, options.scale[2])
    /\ (last.op = "Resized" /\ inner.user_scale_factor = F32(1, 1))
          => size(inner) = HostPhysicalSize(LogicalSize(last.arg[1]), last.arg[2])

\* A window opened with user scale factor 2 has received the Resized event
\* that reports its opened size, and size() has doubled.
C25_Doubled ==
    /\ last.op = "Resized"
    /\ options.size = LogicalSize(<<1600, 1200>>)
    /\ last.arg[1] = <<1600, 1200>>
    /\ inner.user_scale_factor = F32(2, 1)
    /\ pre.inner.size = LogicalSize(<<800, 600>>)
    /\ size(pre.inner) = <<1600, 1200>>
    /\ size(inner) = <<3200, 2400>>

\* The messages the running frame callback has handed to the view so far.
DrainedInFrame ==
    Len(SelectSeq(calls, LAMBDA c : c.to = "view" /\ c.ev = "on_message"))

\* C26: every frame callback's message drain completes, whatever the
\* producers send while it runs: the drain hands the view no more messages
\* than were queued when the frame callback began, so its length does not
\* depend on the sends that are concurrent with it, and the render call that
\* ends the callback follows after at most that many steps.
C26_DrainBoundedByBacklog ==
    /\ frame_pc = "drain" => DrainedInFrame <= Len(at_start)
    /\ (last.op = "handler.on_frame" /\ frame_pc = "idle")
          => /\ DrainedInFrame <= Len(at_start)
             /\ HasEvent(calls, "update_timers_and_animations")

====
